---------------------------- MODULE Spec2Model ----------------------------
(* A model of nvme-amz (src/src/lib.rs): the identify-controller layout,    *)
(* the device query, the device classifier Nvme::from_fd, the name parser   *)
(* Names::try_from and the accessor Nvme::name.                             *)
(* Strings are sequences of code points; `*c as char` maps a byte to the    *)
(* code point of the same value, so a byte string and its decoded String    *)
(* are the same sequence of numbers.                                        *)
EXTENDS Integers, Sequences, FiniteSets, TLC

VARIABLES
    pc, backend, ioctl_ret, ctrl, cmd, calls, steps, model, result, effective,
    chars, parsed, parsed_name,
    lty, lidx, lrec, lcmd

vars == <<pc, backend, ioctl_ret, ctrl, cmd, calls, steps, model, result,
          effective, chars, parsed, parsed_name, lty, lidx, lrec, lcmd>>
pipeVars == <<pc, backend, ioctl_ret, ctrl, cmd, calls, steps, model, result,
              effective>>
parseVars == <<chars, parsed, parsed_name>>
layoutVars == <<lty, lidx, lrec, lcmd>>

(***************************************************************************)
(* Bounds of the model.                                                    *)
(***************************************************************************)
\* Longest name text, in tokens, handed to the name parser.
MaxTokens == 5
\* Most space bytes put between a model string and its fill bytes.
PadRange == 2

(***************************************************************************)
(* Constants of the program.                                               *)
(***************************************************************************)
AMZ_EBS_MN ==
    <<65,109,97,122,111,110,32,69,108,97,115,116,105,99,32,66,108,111,99,107,
      32,83,116,111,114,101>>
AMZ_INST_STORE_MN ==
    <<65,109,97,122,111,110,32,69,67,50,32,78,86,77,101,32,73,110,115,116,97,
      110,99,101,32,83,116,111,114,97,103,101>>
AMZ_VENDOR_ID == 7439
NVME_ADMIN_IDENTIFY == 6
COLON == 58
SPACE == 32
NULL == 0
MN_LEN == 40
BDEV_LEN == 32
\* "/dev/" and "none", the literals of Names::try_from
DevPrefix == <<47,100,101,118,47>>
NoneStr == <<110,111,110,101>>

(***************************************************************************)
(* Option<String> and small sequence helpers.                              *)
(***************************************************************************)
None == [some |-> FALSE, val |-> <<>>]
Some(s) == [some |-> TRUE, val |-> s]

Fill(b, n) == [i \in 1..n |-> b]

RECURSIVE Flatten(_)
Flatten(ss) == IF ss = <<>> THEN <<>> ELSE Head(ss) \o Flatten(Tail(ss))

SetMin(S) == CHOOSE x \in S : \A y \in S : x <= y

\* str::starts_with
StartsWith(s, p) == Len(s) >= Len(p) /\ SubSeq(s, 1, Len(p)) = p

(***************************************************************************)
(* Names::try_from(&[u8])                                                  *)
(***************************************************************************)
\* The scanning loop over chars.iter(): position i, the two fields and
\* has_delim so far.
RECURSIVE Scan(_, _, _, _, _)
Scan(cs, i, field1, field2, has_delim) ==
    IF i > Len(cs)
    THEN [field1 |-> field1, field2 |-> field2, has_delim |-> has_delim]
    ELSE IF cs[i] = NULL \/ cs[i] = SPACE
    THEN [field1 |-> field1, field2 |-> field2, has_delim |-> has_delim]
    ELSE IF cs[i] = COLON
    THEN Scan(cs, i + 1, field1, field2, TRUE)
    ELSE IF ~has_delim
    THEN Scan(cs, i + 1, Append(field1, cs[i]), field2, has_delim)
    ELSE Scan(cs, i + 1, field1, Append(field2, cs[i]), has_delim)

\* A mutant of StripDev: every leading "/dev/" is removed, not only one.
RECURSIVE StripDevAll(_)
StripDevAll(s) ==
    IF StartsWith(s, DevPrefix) THEN StripDevAll(SubSeq(s, 6, Len(s))) ELSE s

\* if field.starts_with("/dev/") { field = field[5..].into(); }
StripDev(s) ==
    IF StartsWith(s, DevPrefix) THEN SubSeq(s, 6, Len(s)) ELSE s

\* let device_name = if has_delim { if field2 == "none" {None} else {Some} }
\*                   else { Some(&field1) }
DeviceName(has_delim, field1, field2) ==
    IF has_delim
    THEN IF field2 = NoneStr THEN None ELSE Some(field2)
    ELSE Some(field1)

\* let virtual_name = if has_delim { Some(&field1) } else { None };
VirtualName(has_delim, field1) ==
    IF has_delim THEN Some(field1) ELSE None

NamesTryFrom(cs) ==
    LET sc == Scan(cs, 1, <<>>, <<>>, FALSE)
        field1 == StripDev(sc.field1)
        field2 == StripDev(sc.field2)
        device_name == DeviceName(sc.has_delim, field1, field2)
        virtual_name == VirtualName(sc.has_delim, field1)
    IN  IF ~device_name.some /\ ~virtual_name.some
        THEN [kind |-> "Err", err |-> "UnparseableDeviceName", text |-> cs,
              device_name |-> None, virtual_name |-> None]
        ELSE [kind |-> "Ok", err |-> "", text |-> <<>>,
              device_name |-> device_name, virtual_name |-> virtual_name]

(***************************************************************************)
(* Nvme::name                                                              *)
(***************************************************************************)
\* A mutant of NvmeName: the virtual name is unwrapped first.
NvmeNameVirtualFirst(names) ==
    IF names.virtual_name.some
    THEN [panic |-> FALSE, val |-> names.virtual_name.val]
    ELSE [panic |-> TRUE, val |-> <<>>]

\* device_name.as_ref().unwrap_or_else(|| virtual_name.as_ref().unwrap())
NvmeName(names) ==
    IF names.device_name.some
    THEN [panic |-> FALSE, val |-> names.device_name.val]
    ELSE IF names.virtual_name.some
    THEN [panic |-> FALSE, val |-> names.virtual_name.val]
    ELSE [panic |-> TRUE, val |-> <<>>]

NoName == [called |-> FALSE, panic |-> FALSE, val |-> <<>>]
Pending == [kind |-> "Pending", err |-> "", text |-> <<>>,
            device_name |-> None, virtual_name |-> None]

(***************************************************************************)
(* The name parser as a state machine over byte slices.                    *)
(***************************************************************************)
\* The pieces byte slices are built from: "/dev/", "none", "sdb", "a", ":",
\* a null byte and a space byte.
Tokens == {DevPrefix, NoneStr, <<115,100,98>>, <<97>>, <<COLON>>, <<NULL>>, <<SPACE>>}

TokenSeqs == UNION {[1..n -> Tokens] : n \in 0..MaxTokens}

ParseInputs == {Flatten(ts) : ts \in TokenSeqs}

ParseIdle ==
    /\ chars = <<>>
    /\ parsed = Pending
    /\ parsed_name = NoName

ParseInit ==
    /\ chars \in ParseInputs
    /\ parsed = Pending
    /\ parsed_name = NoName

\* chars.try_into(): Names::try_from on the slice
ParseNames ==
    /\ parsed.kind = "Pending"
    /\ parsed' = NamesTryFrom(chars)
    /\ UNCHANGED <<chars, parsed_name>>

\* Nvme::name() on an Nvme holding the parsed Names
NameOfParsed ==
    /\ parsed.kind = "Ok"
    /\ ~parsed_name.called
    /\ parsed_name' = [called |-> TRUE, panic |-> NvmeName(parsed).panic,
                       val |-> NvmeName(parsed).val]
    /\ UNCHANGED <<chars, parsed>>

(***************************************************************************)
(* The #[repr(C)] layouts.                                                 *)
(***************************************************************************)
\* Widths of the std::ffi scalar types on Linux.
CSize(ty) ==
    CASE ty = "c_uchar" -> 1
      [] ty = "c_char" -> 1
      [] ty = "c_ushort" -> 2
      [] ty = "c_uint" -> 4
      [] ty = "c_ulonglong" -> 8

\* The next multiple of align at or after off.
AlignUp(off, align) == ((off + align - 1) \div align) * align

\* The end of field hi when fields lo..hi of a repr(C) struct are laid out
\* in order from byte off on, each at the next multiple of its alignment.
\* (The range is halved, and the first half is laid out before the second
\* is entered, so that the evaluation stays shallow.)
RECURSIVE EndOffset(_, _, _, _)
EndOffset(fields, lo, hi, off) ==
    IF lo > hi THEN off
    ELSE IF lo = hi
    THEN AlignUp(off, fields[lo].align) + fields[lo].size * fields[lo].count
    ELSE LET mid == (lo + hi) \div 2
             half == EndOffset(fields, lo, mid, off)
         IN  IF half >= 0 THEN EndOffset(fields, mid + 1, hi, half) ELSE half

\* Offset of field i: the end of the fields before it, aligned.
FieldOffset(fields, i) ==
    AlignUp(EndOffset(fields, 1, i - 1, 0), fields[i].align)

\* Padding bytes placed right before field i.
FieldPadding(fields, i) ==
    FieldOffset(fields, i) - EndOffset(fields, 1, i - 1, 0)

\* std::mem::align_of of a repr(C) struct: the largest alignment of a field
StructAlign(fields) ==
    CHOOSE a \in {fields[i].align : i \in 1..Len(fields)} :
        \A i \in 1..Len(fields) : fields[i].align <= a

StructEnd(fields) == EndOffset(fields, 1, Len(fields), 0)

\* std::mem::size_of of a repr(C) struct
StructSize(fields) == AlignUp(StructEnd(fields), StructAlign(fields))

\* A field of scalar type ty, or an array [ty; count] of it.
F(name, ty, count) ==
    [name |-> name, size |-> CSize(ty), align |-> CSize(ty), count |-> count]

\* A field of struct type, or an array of it.
S(name, fields, count) ==
    [name |-> name, size |-> StructSize(fields), align |-> StructAlign(fields),
     count |-> count]

\* A mutant of NvmeIdPsdFields: the reserved tail is 16 bytes wide.
NvmeIdPsdFieldsRsvd16 ==
    <<F("mp", "c_ushort", 1), F("rsvd2", "c_uchar", 1),
      F("flags", "c_uchar", 1), F("enlat", "c_uint", 1),
      F("exlat", "c_uint", 1), F("rrt", "c_uchar", 1),
      F("rrl", "c_uchar", 1), F("rwt", "c_uchar", 1), F("rwl", "c_uchar", 1),
      F("idlp", "c_ushort", 1), F("ips", "c_uchar", 1),
      F("rsvd19", "c_uchar", 1), F("actp", "c_ushort", 1),
      F("apws", "c_uchar", 1), F("rsvd16", "c_uchar", 16)>>

NvmeIdPsdFields ==
    <<F("mp", "c_ushort", 1), F("rsvd2", "c_uchar", 1),
      F("flags", "c_uchar", 1), F("enlat", "c_uint", 1),
      F("exlat", "c_uint", 1), F("rrt", "c_uchar", 1),
      F("rrl", "c_uchar", 1), F("rwt", "c_uchar", 1), F("rwl", "c_uchar", 1),
      F("idlp", "c_ushort", 1), F("ips", "c_uchar", 1),
      F("rsvd19", "c_uchar", 1), F("actp", "c_ushort", 1),
      F("apws", "c_uchar", 1), F("rsvd23", "c_uchar", 9)>>

NvmeVuIdCtrlFieldFields ==
    <<F("bdev", "c_uchar", 32), F("reserved0", "c_uchar", 992)>>

NvmeIdCtrlFields ==
    <<F("vid", "c_ushort", 1), F("ssvid", "c_ushort", 1),
      F("sn", "c_char", 20), F("mn", "c_char", 40), F("fr", "c_char", 8),
      F("rab", "c_uchar", 1), F("ieee", "c_uchar", 3),
      F("cmic", "c_uchar", 1), F("mdts", "c_uchar", 1),
      F("cntlid", "c_ushort", 1), F("ver", "c_uint", 1),
      F("rtd3r", "c_uint", 1), F("rtd3e", "c_uint", 1),
      F("oaes", "c_uint", 1), F("ctratt", "c_uint", 1),
      F("rrls", "c_ushort", 1), F("rsvd102", "c_uchar", 9),
      F("cntrltype", "c_uchar", 1), F("fguid", "c_uchar", 16),
      F("crdt1", "c_ushort", 1), F("crdt2", "c_ushort", 1),
      F("crdt3", "c_ushort", 1), F("rsvd134", "c_uchar", 119),
      F("nvmsr", "c_uchar", 1), F("vwci", "c_uchar", 1),
      F("mec", "c_uchar", 1), F("oacs", "c_ushort", 1),
      F("acl", "c_uchar", 1), F("aerl", "c_uchar", 1),
      F("frmw", "c_uchar", 1), F("lpa", "c_uchar", 1),
      F("elpe", "c_uchar", 1), F("npss", "c_uchar", 1),
      F("avscc", "c_uchar", 1), F("apsta", "c_uchar", 1),
      F("wctemp", "c_ushort", 1), F("cctemp", "c_ushort", 1),
      F("mtfa", "c_ushort", 1), F("hmpre", "c_uint", 1),
      F("hmmin", "c_uint", 1), F("tnvmcap", "c_uchar", 16),
      F("unvmcap", "c_uchar", 16), F("rpmbs", "c_uint", 1),
      F("edstt", "c_ushort", 1), F("dsto", "c_uchar", 1),
      F("fwug", "c_uchar", 1), F("kas", "c_ushort", 1),
      F("hctma", "c_ushort", 1), F("mntmt", "c_ushort", 1),
      F("mxtmt", "c_ushort", 1), F("sanicap", "c_uint", 1),
      F("hmminds", "c_uint", 1), F("hmmaxd", "c_ushort", 1),
      F("nsetidmax", "c_ushort", 1), F("endgidmax", "c_ushort", 1),
      F("anatt", "c_uchar", 1), F("anacap", "c_uchar", 1),
      F("anagrpmax", "c_uint", 1), F("nanagrpid", "c_uint", 1),
      F("pels", "c_uint", 1), F("domainid", "c_ushort", 1),
      F("rsvd358", "c_uchar", 10), F("megcap", "c_uchar", 16),
      F("tmpthha", "c_uchar", 1), F("rsvd385", "c_uchar", 127),
      F("sqes", "c_uchar", 1), F("cqes", "c_uchar", 1),
      F("maxcmd", "c_ushort", 1), F("nn", "c_uint", 1),
      F("oncs", "c_ushort", 1), F("fuses", "c_ushort", 1),
      F("fna", "c_uchar", 1), F("vwc", "c_uchar", 1),
      F("awun", "c_ushort", 1), F("awupf", "c_ushort", 1),
      F("icsvscc", "c_uchar", 1), F("nwpc", "c_uchar", 1),
      F("acwu", "c_ushort", 1), F("ocfs", "c_ushort", 1),
      F("sgls", "c_uint", 1), F("mnan", "c_uint", 1),
      F("maxdna", "c_uchar", 16), F("maxcna", "c_uint", 1),
      F("oaqd", "c_uint", 1), F("rsvd568", "c_uchar", 200),
      F("subnqn", "c_char", 256), F("rsvd1024", "c_uchar", 768),
      F("ioccsz", "c_uint", 1), F("iorcsz", "c_uint", 1),
      F("icdoff", "c_ushort", 1), F("fcatt", "c_uchar", 1),
      F("msdbd", "c_uchar", 1), F("ofcs", "c_ushort", 1),
      F("dctype", "c_uchar", 1), F("rsvd1807", "c_uchar", 241),
      S("psd", NvmeIdPsdFields, 32), S("vs", NvmeVuIdCtrlFieldFields, 1)>>

NvmePassthruCmdFields ==
    <<F("opcode", "c_uchar", 1), F("flags", "c_uchar", 1),
      F("rsvd1", "c_ushort", 1), F("nsid", "c_uint", 1),
      F("cdw2", "c_uint", 1), F("cdw3", "c_uint", 1),
      F("metadata", "c_ulonglong", 1), F("addr", "c_ulonglong", 1),
      F("metadata_len", "c_uint", 1), F("data_len", "c_uint", 1),
      F("cdw10", "c_uint", 1), F("cdw11", "c_uint", 1),
      F("cdw12", "c_uint", 1), F("cdw13", "c_uint", 1),
      F("cdw14", "c_uint", 1), F("cdw15", "c_uint", 1),
      F("timeout_ms", "c_uint", 1), F("result", "c_uint", 1)>>


Structs == {"NvmeIdPsd", "NvmeVuIdCtrlField", "NvmeIdCtrl", "NvmePassthruCmd"}

FieldsOf(ty) ==
    CASE ty = "NvmeIdPsd" -> NvmeIdPsdFields
      [] ty = "NvmeVuIdCtrlField" -> NvmeVuIdCtrlFieldFields
      [] ty = "NvmeIdCtrl" -> NvmeIdCtrlFields
      [] ty = "NvmePassthruCmd" -> NvmePassthruCmdFields

\* `as c_uint`: the low 32 bits. Every size this model can hold is below
\* 2^31, where the cast changes nothing.
AsCUint(n) == n

\* The NvmeAdminCmd of nvme_identify_ctrl, the same in both backends.
IdentifyCmd ==
    [addr |-> "out", cdw10 |-> 1,
     data_len |-> AsCUint(StructSize(NvmeIdCtrlFields)),
     opcode |-> NVME_ADMIN_IDENTIFY]

NoCmd == [addr |-> "", cdw10 |-> 0, data_len |-> 0, opcode |-> 0]
NoField == [name |-> "", off |-> 0, pad |-> 0, size |-> 0, count |-> 0]

LayoutIdle ==
    /\ lty = ""
    /\ lidx = 0
    /\ lrec = NoField
    /\ lcmd = NoCmd

LayoutInit ==
    /\ lty \in Structs
    /\ lidx = 0
    /\ lrec = NoField
    /\ lcmd = NoCmd

\* The compiler places the next field of the struct.
LayoutField ==
    /\ lidx >= 0
    /\ lidx < Len(FieldsOf(lty))
    /\ lidx' = lidx + 1
    /\ lrec' = [name |-> FieldsOf(lty)[lidx + 1].name,
                off |-> FieldOffset(FieldsOf(lty), lidx + 1),
                pad |-> lrec.pad + FieldPadding(FieldsOf(lty), lidx + 1),
                size |-> FieldsOf(lty)[lidx + 1].size,
                count |-> FieldsOf(lty)[lidx + 1].count]
    /\ UNCHANGED <<lty, lcmd>>

\* The struct is closed: its size, tail padding included.
LayoutSize ==
    /\ lidx = Len(FieldsOf(lty))
    /\ lidx' = -1
    /\ lrec' = [name |-> "size_of",
                off |-> StructSize(FieldsOf(lty)),
                pad |-> lrec.pad
                          + (StructSize(FieldsOf(lty)) - StructEnd(FieldsOf(lty))),
                size |-> 0, count |-> 0]
    /\ UNCHANGED <<lty, lcmd>>

\* nvme_identify_ctrl builds the admin command around size_of::<NvmeIdCtrl>().
BuildIdentifyCmd ==
    /\ lty = "NvmeIdCtrl"
    /\ lidx = -1
    /\ lcmd = NoCmd
    /\ lcmd' = IdentifyCmd
    /\ UNCHANGED <<lty, lidx, lrec>>

(***************************************************************************)
(* The device query: nvme_identify_ctrl of the two ioctl backends.         *)
(***************************************************************************)
\* NvmeIdCtrl::default(): the fields from_fd reads, all zero.
NvmeIdCtrlDefault ==
    [vid |-> 0, mn |-> Fill(0, MN_LEN), bdev |-> Fill(0, BDEV_LEN)]

Backends == {"ioctl-nix", "ioctl-rustix"}

\* What ioctl(2) hands back: -1 with errno set, 0, or a positive NVMe status.
IoctlOutcomes ==
    {[ret |-> -1, errno |-> e] : e \in {1, 13, 25}}
      \cup {[ret |-> r, errno |-> 0] : r \in {0, 1, 2}}

QueryOk(c) == [ok |-> TRUE, err |-> "", code |-> 0, ctrl |-> c]
QueryErr(e, code) == [ok |-> FALSE, err |-> e, code |-> code, ctrl |-> NvmeIdCtrlDefault]

\* ioctl_nix::nvme_identify_ctrl: the function ioctl_readwrite! generates
\* turns only a return of -1 into Err(Errno::last()); `?` drops any other
\* return value and Ok(out) follows.
NixIdentifyCtrl(outcome, out) ==
    IF outcome.ret = -1
    THEN QueryErr("NixErrno", outcome.errno)
    ELSE QueryOk(out)

\* ioctl_rustix::nvme_identify_ctrl: rustix's ioctl fails on a negative
\* return; output_from_ptr fails on every other nonzero return and reads
\* the buffer behind addr on zero.
RustixIdentifyCtrl(outcome, out) ==
    IF outcome.ret < 0
    THEN QueryErr("RustixErrno", outcome.errno)
    ELSE IF outcome.ret # 0
    THEN QueryErr("RustixErrno", outcome.ret)
    ELSE QueryOk(out)

(***************************************************************************)
(* The device classifier: Nvme::from_fd.                                   *)
(***************************************************************************)
\* A mutant of VendorMatches: the vendor id is not looked at.
VendorAlwaysMatches(vid) == TRUE

\* ctrl.vid != AMZ_VENDOR_ID, negated
VendorMatches(vid) == vid = AMZ_VENDOR_ID

\* char::is_whitespace on the code points a byte can give
IsWhitespace(c) == c \in {9, 10, 11, 12, 13, 32, 133, 160}

\* model_str.truncate(model_str.trim_end().len())
RECURSIVE TrimEnd(_)
TrimEnd(s) ==
    IF s = <<>> THEN s
    ELSE IF IsWhitespace(s[Len(s)]) THEN TrimEnd(SubSeq(s, 1, Len(s) - 1))
    ELSE s

\* A mutant of ModelOf: a model string only has to start with a known one.
ModelOfPrefix(model_str) ==
    IF StartsWith(model_str, AMZ_EBS_MN) THEN "AmazonElasticBlockStore"
    ELSE IF StartsWith(model_str, AMZ_INST_STORE_MN) THEN "AmazonInstanceStore"
    ELSE "_"

\* match model_str.as_str() { AMZ_EBS_MN => .., AMZ_INST_STORE_MN => .., _ => .. }
ModelOf(model_str) ==
    IF model_str = AMZ_EBS_MN THEN "AmazonElasticBlockStore"
    ELSE IF model_str = AMZ_INST_STORE_MN THEN "AmazonInstanceStore"
    ELSE "_"

NoResult ==
    [kind |-> "Pending", err |-> "", code |-> 0, text |-> <<>>, model |-> "",
     names |-> Pending, vendor_id |-> 0]

ResultErr(e, code, text) ==
    [kind |-> "Err", err |-> e, code |-> code, text |-> text, model |-> "",
     names |-> Pending, vendor_id |-> 0]

ResultOk(m, names, vid) ==
    [kind |-> "Ok", err |-> "", code |-> 0, text |-> <<>>, model |-> m,
     names |-> names, vendor_id |-> vid]

(***************************************************************************)
(* The identify responses a device may give.                               *)
(***************************************************************************)
Vids == {0, AMZ_VENDOR_ID, AMZ_VENDOR_ID - 1, AMZ_VENDOR_ID + 256, 65535}

\* The two known model strings; a prefix of one, one with a character
\* after it, one with a space before it, one in lower case, the empty one.
ModelBases ==
    {AMZ_EBS_MN, AMZ_INST_STORE_MN,
     SubSeq(AMZ_EBS_MN, 1, Len(AMZ_EBS_MN) - 1),
     AMZ_EBS_MN \o <<50>>,
     <<SPACE>> \o AMZ_EBS_MN,
     <<97>> \o Tail(AMZ_EBS_MN),
     SubSeq(AMZ_INST_STORE_MN, 1, Len(AMZ_INST_STORE_MN) - 1),
     <<>>}

\* Space, tab, null, a letter and the byte 0xA0.
FillBytes == {SPACE, 9, NULL, 120, 160}

PadTo(s, b, n) == s \o Fill(b, n - Len(s))

ModelFields ==
    {PadTo(base \o Fill(SPACE, k), b, MN_LEN) :
        base \in ModelBases, k \in 0..PadRange, b \in FillBytes}

\* "/dev/sda1", "ephemeral0:/dev/sdb", "ephemeral1:none",
\* "ephemeral0:/dev/none", "a:b:c", ":", "/dev/" and the empty name
BdevNames ==
    {<<47,100,101,118,47,115,100,97,49>>,
     <<101,112,104,101,109,101,114,97,108,48,58,47,100,101,118,47,115,100,98>>,
     <<101,112,104,101,109,101,114,97,108,49,58,110,111,110,101>>,
     <<101,112,104,101,109,101,114,97,108,48,58,47,100,101,118,47,110,111,110,101>>,
     <<97,58,98,58,99>>,
     <<COLON>>,
     DevPrefix,
     <<>>}

BdevFields == {PadTo(n, b, BDEV_LEN) : n \in BdevNames, b \in {NULL, SPACE, 120}}

IdentifyResponses ==
    {[vid |-> v, mn |-> m, bdev |-> b] :
        v \in Vids, m \in ModelFields, b \in BdevFields}

(***************************************************************************)
(* One identification, step by step.                                       *)
(***************************************************************************)
PipeIdle ==
    /\ pc = "off"
    /\ backend = ""
    /\ ioctl_ret = [ret |-> 0, errno |-> 0]
    /\ ctrl = NvmeIdCtrlDefault
    /\ cmd = NoCmd
    /\ calls = 0
    /\ steps = {}
    /\ model = ""
    /\ result = NoResult
    /\ effective = NoName

PipeInit ==
    /\ pc = "start"
    /\ backend = ""
    /\ ioctl_ret = [ret |-> 0, errno |-> 0]
    /\ ctrl = NvmeIdCtrlDefault
    /\ cmd = NoCmd
    /\ calls = 0
    /\ steps = {}
    /\ model = ""
    /\ result = NoResult
    /\ effective = NoName

\* Nvme::try_from(File): from_fd with the backend the build selected.
TryFromFile ==
    /\ pc = "start"
    /\ \E b \in Backends : backend' = b
    /\ pc' = "identify"
    /\ UNCHANGED <<ioctl_ret, ctrl, cmd, calls, steps, model, result, effective>>

\* let ctrl = f(fd)?; the one control call and what the backend makes of
\* it. A buffer after a nonzero return holds the zeroes it started with or
\* whatever the device wrote.
IdentifyCtrl ==
    /\ pc = "identify"
    /\ \E outcome \in IoctlOutcomes, resp \in IdentifyResponses :
         \E out \in (IF outcome.ret = 0 THEN {resp} ELSE {NvmeIdCtrlDefault, resp}) :
           LET q == IF backend = "ioctl-nix"
                    THEN NixIdentifyCtrl(outcome, out)
                    ELSE RustixIdentifyCtrl(outcome, out)
           IN  /\ ioctl_ret' = outcome
               /\ cmd' = IdentifyCmd
               /\ calls' = calls + 1
               /\ ctrl' = q.ctrl
               /\ IF q.ok
                  THEN /\ pc' = "vendor"
                       /\ result' = result
                  ELSE /\ pc' = "done"
                       /\ result' = ResultErr(q.err, q.code, <<>>)
    /\ UNCHANGED <<backend, steps, model, effective>>

\* if ctrl.vid != AMZ_VENDOR_ID { return Err(UnrecognizedVendorId(ctrl.vid)) }
VendorCheck ==
    /\ pc = "vendor"
    /\ steps' = steps \cup {"vendor"}
    /\ IF VendorMatches(ctrl.vid)
       THEN /\ pc' = "model"
            /\ result' = result
       ELSE /\ pc' = "done"
            /\ result' = ResultErr("UnrecognizedVendorId", ctrl.vid, <<>>)
    /\ UNCHANGED <<backend, ioctl_ret, ctrl, cmd, calls, model, effective>>

\* The model string is decoded, trimmed and matched.
ModelDecode ==
    /\ pc = "model"
    /\ steps' = steps \cup {"model"}
    /\ LET model_str == TrimEnd(ctrl.mn)
       IN  IF ModelOf(model_str) # "_"
           THEN /\ pc' = "names"
                /\ model' = ModelOf(model_str)
                /\ result' = result
           ELSE /\ pc' = "done"
                /\ model' = model
                /\ result' = ResultErr("UnrecognizedModel", 0, model_str)
    /\ UNCHANGED <<backend, ioctl_ret, ctrl, cmd, calls, effective>>

\* let names = ctrl.vs.bdev.as_slice().try_into()?; Ok(Self { .. })
NameDecode ==
    /\ pc = "names"
    /\ steps' = steps \cup {"names"}
    /\ LET names == NamesTryFrom(ctrl.bdev)
       IN  IF names.kind = "Ok"
           THEN result' = ResultOk(model, names, ctrl.vid)
           ELSE result' = ResultErr(names.err, 0, names.text)
    /\ pc' = "done"
    /\ UNCHANGED <<backend, ioctl_ret, ctrl, cmd, calls, model, effective>>

\* nvme.name() on the Nvme an identification returned
EffectiveName ==
    /\ pc = "done"
    /\ result.kind = "Ok"
    /\ pc' = "named"
    /\ effective' = [called |-> TRUE, panic |-> NvmeName(result.names).panic,
                     val |-> NvmeName(result.names).val]
    /\ UNCHANGED <<backend, ioctl_ret, ctrl, cmd, calls, steps, model, result>>

(***************************************************************************)
(* Specifications.                                                         *)
(***************************************************************************)
Init == PipeInit /\ ParseIdle /\ LayoutIdle

Next ==
    \/ TryFromFile /\ UNCHANGED <<parseVars, layoutVars>>
    \/ IdentifyCtrl /\ UNCHANGED <<parseVars, layoutVars>>
    \/ VendorCheck /\ UNCHANGED <<parseVars, layoutVars>>
    \/ ModelDecode /\ UNCHANGED <<parseVars, layoutVars>>
    \/ NameDecode /\ UNCHANGED <<parseVars, layoutVars>>
    \/ EffectiveName /\ UNCHANGED <<parseVars, layoutVars>>

Spec == Init /\ [][Next]_vars

ParseSpecInit == PipeIdle /\ ParseInit /\ LayoutIdle

ParseNext ==
    \/ ParseNames /\ UNCHANGED <<pipeVars, layoutVars>>
    \/ NameOfParsed /\ UNCHANGED <<pipeVars, layoutVars>>

ParseSpec == ParseSpecInit /\ [][ParseNext]_vars

LayoutSpecInit == PipeIdle /\ ParseIdle /\ LayoutInit

LayoutNext ==
    \/ LayoutField /\ UNCHANGED <<pipeVars, parseVars>>
    \/ LayoutSize /\ UNCHANGED <<pipeVars, parseVars>>
    \/ BuildIdentifyCmd /\ UNCHANGED <<pipeVars, parseVars>>

LayoutSpec == LayoutSpecInit /\ [][LayoutNext]_vars

(***************************************************************************)
(* The grammar of the name field, stated over the text itself.             *)
(***************************************************************************)
TermIdx(cs) == {i \in 1..Len(cs) : cs[i] = NULL \/ cs[i] = SPACE}

\* The bytes before the first null or space byte.
TextOf(cs) ==
    IF TermIdx(cs) = {} THEN cs ELSE SubSeq(cs, 1, SetMin(TermIdx(cs)) - 1)

ColonIdx(t) == {i \in 1..Len(t) : t[i] = COLON}

BeforeColon(t) == SubSeq(t, 1, SetMin(ColonIdx(t)) - 1)

AfterColon(t) == SubSeq(t, SetMin(ColonIdx(t)) + 1, Len(t))

\* t with one leading "/dev/" removed
WithoutDev(t) ==
    IF Len(t) >= 5 /\ SubSeq(t, 1, 5) = DevPrefix THEN SubSeq(t, 6, Len(t)) ELSE t

\* The NameRecord the grammar gives a text: the first colon splits it.
Grammar(t) ==
    IF ColonIdx(t) = {}
    THEN [kind |-> "Ok", err |-> "", text |-> <<>>,
          device_name |-> Some(WithoutDev(t)), virtual_name |-> None]
    ELSE [kind |-> "Ok", err |-> "", text |-> <<>>,
          device_name |-> IF WithoutDev(AfterColon(t)) = NoneStr
                          THEN None
                          ELSE Some(WithoutDev(AfterColon(t))),
          virtual_name |-> Some(WithoutDev(BeforeColon(t)))]

WasParsed == parsed.kind # "Pending"

(***************************************************************************)
(* Claims about the name parser, under ParseSpec.                          *)
(***************************************************************************)
\* C1: only the first colon before the terminator is a delimiter; every
\* later colon stays in the second field, so that the parsed names are those
\* of the text split at its first colon alone.
C1_LaterColonsKept ==
    (WasParsed /\ ColonIdx(TextOf(chars)) # {})
        => parsed = Grammar(TextOf(chars))

\* C2: a slice whose text before the terminator is empty fails to parse
\* with the unparseable device name error and gives no NameRecord.
C2_EmptyTextFails ==
    (WasParsed /\ TextOf(chars) = <<>>)
        => (parsed.kind = "Err" /\ parsed.err = "UnparseableDeviceName")

\* C3: every NameRecord the parser returns has a device name or a virtual
\* name, and name() on it returns the device name when present, the virtual
\* name otherwise, without ever unwrapping an absent virtual name.
C3_NameNeverPanics ==
    /\ parsed.kind = "Ok"
          => (parsed.device_name.some \/ parsed.virtual_name.some)
    /\ parsed_name.called
          => /\ ~parsed_name.panic
             /\ parsed.device_name.some
                   => parsed_name.val = parsed.device_name.val
             /\ ~parsed.device_name.some
                   => (parsed.virtual_name.some
                         /\ parsed_name.val = parsed.virtual_name.val)

\* name() fell back to the virtual name of a record without a device name.
C3_Witness ==
    /\ parsed_name.called
    /\ ~parsed.device_name.some
    /\ parsed.virtual_name.some
    /\ parsed_name.val = <<97>>

\* C8: for a slice whose text before the first null/space byte is non-empty
\* and holds at most one colon, the parser's result is the grammar's record
\* of that text, whatever follows the terminator.
C8_ParserFollowsGrammar ==
    (WasParsed /\ TextOf(chars) # <<>>
       /\ Cardinality(ColonIdx(TextOf(chars))) <= 1)
        => parsed = Grammar(TextOf(chars))

\* A terminated text "a:/dev/..." was parsed.
C8_Witness ==
    /\ parsed.kind = "Ok"
    /\ Cardinality(ColonIdx(TextOf(chars))) = 1
    /\ Len(chars) > Len(TextOf(chars))
    /\ parsed.virtual_name = Some(<<97>>)
    /\ StartsWith(AfterColon(TextOf(chars)), DevPrefix)
    /\ parsed.device_name.some
    /\ parsed.device_name.val # <<>>

\* C10: with a colon present the device name is absent exactly when the
\* text after the colon is "none" or "/dev/none"; for every other second
\* field, the empty one included, it is present.
C10_NoneAfterStrip ==
    (WasParsed /\ ColonIdx(TextOf(chars)) # {})
        => /\ parsed.kind = "Ok"
           /\ ~parsed.device_name.some
                <=> AfterColon(TextOf(chars)) \in {NoneStr, DevPrefix \o NoneStr}

(***************************************************************************)
(* Claims about one identification, under Spec.                            *)
(***************************************************************************)
\* The query returned a response to from_fd.
QueryReturned ==
    /\ pc \notin {"start", "identify"}
    /\ result.err \notin {"NixErrno", "RustixErrno"}

\* C4: on every identify response on which identification succeeds (the
\* control call returned zero, the vendor id matched, the model was
\* recognised and the name field parsed), name() is a non-empty string.
C4_EffectiveNameNonEmpty ==
    (effective.called /\ ioctl_ret.ret = 0) => Len(effective.val) > 0

\* C5: a response whose vendor id is not 0x1D0F ends in UnrecognizedVendorId
\* carrying that id, with neither the model nor the name field looked at;
\* every Nvme returned carries vendor id 0x1D0F.
C5_VendorGate ==
    /\ (QueryReturned /\ pc # "vendor" /\ ctrl.vid # 7439)
          => /\ result.kind = "Err"
             /\ result.err = "UnrecognizedVendorId"
             /\ result.code = ctrl.vid
             /\ steps = {"vendor"}
    /\ result.kind = "Ok" => result.vendor_id = 7439

\* A wrong vendor id was reported although model and name were both valid.
C5_Witness ==
    /\ result.err = "UnrecognizedVendorId"
    /\ ioctl_ret.ret = 0
    /\ ctrl.vid = 7438
    /\ ModelOf(TrimEnd(ctrl.mn)) = "AmazonInstanceStore"
    /\ NamesTryFrom(ctrl.bdev).kind = "Ok"
    /\ NamesTryFrom(ctrl.bdev).device_name = Some(<<115,100,98>>)

\* The model field is the literal lit followed by whitespace bytes only.
IsPadded(mn, lit) ==
    /\ SubSeq(mn, 1, Len(lit)) = lit
    /\ \A i \in (Len(lit) + 1)..Len(mn) : IsWhitespace(mn[i])

\* s is mn without its trailing whitespace.
IsTrimmed(mn, s) ==
    /\ Len(s) <= Len(mn)
    /\ SubSeq(mn, 1, Len(s)) = s
    /\ \A i \in (Len(s) + 1)..Len(mn) : IsWhitespace(mn[i])
    /\ s # <<>> => ~IsWhitespace(s[Len(s)])

\* C6: with a matching vendor id the model is recognised exactly when the
\* 40-byte field is one of the two literals followed by whitespace only
\* (EBS for the first, instance store for the second); anything else ends in
\* UnrecognizedModel carrying the field without its trailing whitespace.
C6_ModelClassification ==
    "model" \in steps
        => /\ Len(ctrl.mn) = 40
           /\ IsPadded(ctrl.mn, AMZ_EBS_MN)
                 => (model = "AmazonElasticBlockStore"
                       /\ result.err # "UnrecognizedModel")
           /\ IsPadded(ctrl.mn, AMZ_INST_STORE_MN)
                 => (model = "AmazonInstanceStore"
                       /\ result.err # "UnrecognizedModel")
           /\ (~IsPadded(ctrl.mn, AMZ_EBS_MN)
                 /\ ~IsPadded(ctrl.mn, AMZ_INST_STORE_MN))
                 => /\ pc = "done"
                    /\ result.kind = "Err"
                    /\ result.err = "UnrecognizedModel"
                    /\ IsTrimmed(ctrl.mn, result.text)
                    /\ steps = {"vendor", "model"}

\* The EBS literal was recognised with spaces and then tabs behind it.
C6_Witness ==
    /\ "model" \in steps
    /\ model = "AmazonElasticBlockStore"
    /\ ctrl.mn[Len(AMZ_EBS_MN) + 1] = SPACE
    /\ ctrl.mn[MN_LEN] = 9

\* C7: a nonzero return of the control call ends the identification with a
\* transport error wrapping that code, before any vendor, model or name
\* step, in both backends; the call is issued once.
C7_NonzeroIsTransportError ==
    (pc \notin {"start", "identify"} /\ ioctl_ret.ret # 0)
        => /\ result.kind = "Err"
           /\ result.err \in {"NixErrno", "RustixErrno"}
           /\ result.code = (IF ioctl_ret.ret < 0 THEN ioctl_ret.errno
                                                  ELSE ioctl_ret.ret)
           /\ steps = {}
           /\ calls = 1

(***************************************************************************)
(* Claims about the layout, under LayoutSpec.                              *)
(***************************************************************************)
\* C9: NvmeIdCtrl is laid out without padding in 4096 bytes, vid at 0, the
\* 40 bytes of mn at 24, 32 power-state descriptors of 32 bytes at 2048 and
\* the 32 bytes of vs.bdev at 3072; data_len of the admin command is that
\* size.
C9_IdCtrlLayout ==
    /\ lty \in {"NvmeIdCtrl", "NvmeIdPsd", "NvmeVuIdCtrlField"} => lrec.pad = 0
    /\ (lty = "NvmeIdPsd" /\ lrec.name = "size_of") => lrec.off = 32
    /\ (lty = "NvmeVuIdCtrlField" /\ lrec.name = "bdev")
          => (lrec.off = 0 /\ lrec.size * lrec.count = 32)
    /\ lty = "NvmeIdCtrl"
          => /\ lrec.name = "vid" => lrec.off = 0
             /\ lrec.name = "mn" => (lrec.off = 24 /\ lrec.size * lrec.count = 40)
             /\ lrec.name = "psd"
                   => (lrec.off = 2048 /\ lrec.size = 32 /\ lrec.count = 32)
             /\ lrec.name = "vs" => lrec.off = 3072
             /\ lrec.name = "size_of" => lrec.off = 4096
    /\ lcmd # NoCmd => (lcmd.data_len = 4096 /\ lcmd.data_len = lrec.off)

\* NvmeIdCtrl was laid out to its end and the admin command built.
C9_Witness ==
    /\ lty = "NvmeIdCtrl"
    /\ lrec.name = "size_of"
    /\ lcmd.opcode = NVME_ADMIN_IDENTIFY

=============================================================================
